---- MODULE Spec2Model ----
(***************************************************************************)
(* A model of provisioningserver/dhcp/detect.py: the rogue-DHCP-server     *)
(* probe.  Byte strings are sequences of numbers 0..255, text strings are  *)
(* sequences of one-character strings, and probe_interface is a state      *)
(* machine with one step per statement that touches a socket.              *)
(***************************************************************************)
EXTENDS Integers, Sequences, FiniteSets, TLC

VARIABLES pc, interface, sendSock, recvSock, mac, bind_address, discover,
          transaction_id, servers, data, offer, exc, result, final,
          wire, reads, maaslog, other, past, os, missed

vars == <<pc, interface, sendSock, recvSock, mac, bind_address, discover,
          transaction_id, servers, data, offer, exc, result, final,
          wire, reads, maaslog, other, past, os, missed>>

(***************************************************************************)
(* Bounds of the model.                                                    *)
(***************************************************************************)
\* How many datagrams one probe may read before the network falls silent.
MaxReads == 2

\* The same, for each of two probes that run at the same time.
MaxConcReads == 2

\* How many times probe_interface is called, one call after the other, and
\* how many datagrams each of these calls reads.
MaxRuns == 2
MaxRunReads == 1

(***************************************************************************)
(* Program constants.                                                      *)
(***************************************************************************)
BOOTP_SERVER_PORT == 67
BOOTP_CLIENT_PORT == 68
\* sock.settimeout(3): the idle-read timeout, in seconds.
IdleTimeout == 3
\* sock.recv(1024): the largest datagram one read returns.
RecvBufSize == 1024
\* interface.encode('ascii')[:15]
IfNameMax == 15

(***************************************************************************)
(* Bytes and text.                                                         *)
(***************************************************************************)
Min(a, b) == IF a < b THEN a ELSE b

\* A run of zeros that is one short.
Zeros_OneShort(n) == [i \in 1..(n - 1) |-> 0]

\* b'\x00' * n
Zeros(n) == [i \in 1..n |-> 0]

\* Python's data[lo:hi] on a byte string: never fails, clips at the end.
Slice(s, lo, hi) == SubSeq(s, lo + 1, Min(hi, Len(s)))

HexDigit == <<"0", "1", "2", "3", "4", "5", "6", "7",
              "8", "9", "a", "b", "c", "d", "e", "f">>

DecDigit == <<"0", "1", "2", "3", "4", "5", "6", "7", "8", "9">>

\* '%d' % n, as a sequence of characters.
RECURSIVE Decimal(_)
Decimal(n) ==
    IF n < 10 THEN <<DecDigit[n + 1]>>
    ELSE Decimal(n \div 10) \o <<DecDigit[(n % 10) + 1]>>

\* A formatting that loses the last octet.
InetNtoa_ThreeOctets(b) ==
    Decimal(b[1]) \o <<".">> \o Decimal(b[2]) \o <<".">> \o Decimal(b[3])

\* socket.inet_ntoa on 4 bytes: the dotted-decimal text.
InetNtoa(b) ==
    Decimal(b[1]) \o <<".">> \o Decimal(b[2]) \o <<".">> \o
    Decimal(b[3]) \o <<".">> \o Decimal(b[4])

\* '%02x:' % char
Hex02Colon(b) == <<HexDigit[(b \div 16) + 1], HexDigit[(b % 16) + 1], ":">>

RECURSIVE JoinHex(_)
JoinHex(bs) ==
    IF bs = <<>> THEN <<>> ELSE Hex02Colon(Head(bs)) \o JoinHex(Tail(bs))

\* ''.join('%02x:' % char for char in hw)[:-1]
FormatMAC(hw) == LET s == JoinHex(hw) IN SubSeq(s, 1, Len(s) - 1)

\* mac.split(':')
RECURSIVE SplitColon(_, _)
SplitColon(s, cur) ==
    IF s = <<>> THEN <<cur>>
    ELSE IF Head(s) = ":" THEN <<cur>> \o SplitColon(Tail(s), <<>>)
    ELSE SplitColon(Tail(s), Append(cur, Head(s)))

HexValue(c) == CHOOSE v \in 0..15 : HexDigit[v + 1] = c

\* int(pair) with the wrong base.
RECURSIVE IntBase16_Base10(_, _)
IntBase16_Base10(pair, acc) ==
    IF pair = <<>> THEN acc
    ELSE IntBase16_Base10(Tail(pair), acc * 10 + HexValue(Head(pair)))

\* int(pair, 16)
RECURSIVE IntBase16(_, _)
IntBase16(pair, acc) ==
    IF pair = <<>> THEN acc
    ELSE IntBase16(Tail(pair), acc * 16 + HexValue(Head(pair)))

\* DHCPDiscoverPacket.string_mac_to_packed
RECURSIVE PackPairs(_)
PackPairs(pairs) ==
    IF pairs = <<>> THEN <<>>
    ELSE <<IntBase16(Head(pairs), 0)>> \o PackPairs(Tail(pairs))

string_mac_to_packed(m) == PackPairs(SplitColon(m, <<>>))

(***************************************************************************)
(* The packet codec.                                                       *)
(***************************************************************************)
\* A build with the 64-byte server host name field of BOOTP.
Build_Sname64(xid, packed_mac) ==
    <<1>> \o <<1>> \o <<6>> \o <<0>>
    \o xid
    \o <<0, 0>>
    \o <<128, 0>>
    \o <<0, 0, 0, 0>> \o <<0, 0, 0, 0>> \o <<0, 0, 0, 0>> \o <<0, 0, 0, 0>>
    \o packed_mac
    \o <<0, 0, 0, 0, 0, 0, 0, 0, 0, 0>>
    \o Zeros(64)
    \o Zeros(125)
    \o <<99, 130, 83, 99>>
    \o <<53, 1, 1>>
    \o (<<61, 6>> \o packed_mac)
    \o <<55, 3, 3, 1, 6>>
    \o <<255>>

\* A build that writes how many datagrams were sent into the secs field.
Build_Stamped(xid, packed_mac) ==
    <<1>> \o <<1>> \o <<6>> \o <<0>>
    \o xid
    \o <<0, Len(wire)>>
    \o <<128, 0>>
    \o <<0, 0, 0, 0>> \o <<0, 0, 0, 0>> \o <<0, 0, 0, 0>> \o <<0, 0, 0, 0>>
    \o packed_mac
    \o <<0, 0, 0, 0, 0, 0, 0, 0, 0, 0>>
    \o Zeros(67)
    \o Zeros(125)
    \o <<99, 130, 83, 99>>
    \o <<53, 1, 1>>
    \o (<<61, 6>> \o packed_mac)
    \o <<55, 3, 3, 1, 6>>
    \o <<255>>

\* DHCPDiscoverPacket._build: the datagram, piece by piece.
Build(xid, packed_mac) ==
    <<1>> \o <<1>> \o <<6>> \o <<0>>
    \o xid
    \o <<0, 0>>
    \o <<128, 0>>
    \o <<0, 0, 0, 0>> \o <<0, 0, 0, 0>> \o <<0, 0, 0, 0>> \o <<0, 0, 0, 0>>
    \o packed_mac
    \o <<0, 0, 0, 0, 0, 0, 0, 0, 0, 0>>
    \o Zeros(67)
    \o Zeros(125)
    \o <<99, 130, 83, 99>>
    \o <<53, 1, 1>>
    \o (<<61, 6>> \o packed_mac)
    \o <<55, 3, 3, 1, 6>>
    \o <<255>>

NoPacket == [transaction_ID |-> <<>>, packed_mac |-> <<>>, packet |-> <<>>]

\* DHCPDiscoverPacket.__init__, given the 4 random bytes drawn.
DHCPDiscoverPacket(my_mac, xid) ==
    LET pm == string_mac_to_packed(my_mac)
    IN  [transaction_ID |-> xid, packed_mac |-> pm, packet |-> Build(xid, pm)]

\* DHCPOfferPacket.__init__ reads data[4:8] and data[245:249];
\* inet_ntoa raises OSError (with no errno) unless it is given 4 bytes.
OfferDecodes(d) == Len(Slice(d, 245, 249)) = 4

\* A decoder that reads the server address one byte early.
DHCPOfferPacket_OneEarly(d) ==
    [transaction_ID |-> Slice(d, 4, 8),
     dhcp_server_ID |-> InetNtoa(Slice(d, 244, 248))]

\* A decoder that takes the transaction ID of DHCP OFFERs only.
DHCPOfferPacket_OffersOnly(d) ==
    [transaction_ID |-> IF Slice(d, 240, 243) = <<53, 1, 2>>
                          THEN Slice(d, 4, 8) ELSE <<>>,
     dhcp_server_ID |-> InetNtoa(Slice(d, 245, 249))]

DHCPOfferPacket(d) ==
    [transaction_ID |-> Slice(d, 4, 8),
     dhcp_server_ID |-> InetNtoa(Slice(d, 245, 249))]

NoOffer == [transaction_ID |-> <<>>, dhcp_server_ID |-> <<>>]

(***************************************************************************)
(* Exceptions.  kind "OSError" is IOError = OSError = socket.error;        *)
(* "timeout" is socket.timeout, a subclass of it; "UnicodeEncodeError" is  *)
(* not an IOError.  at is the statement that raised.                       *)
(***************************************************************************)
NoExc == [kind |-> "none", errno |-> "None", at |-> "none"]

Raised(kind, errno, at) == [kind |-> kind, errno |-> errno, at |-> at]

IsIOError(e) == e.kind \in {"OSError", "timeout"}

\* A second call of probe_interface runs in another thread.
Concurrent == other.pc # "absent"

\* The errno values an operating-system call may fail with.
\* probe_interface is called more than once, one call after the other.
Repeated == past.left > 0 \/ past.runs # <<>>

SyscallErrnos ==
    IF Repeated THEN {}
    ELSE IF Concurrent THEN {"EACCES"}
    ELSE {"EADDRNOTAVAIL", "ENODEV", "EACCES"}

(***************************************************************************)
(* The operating system's interfaces, as the two ioctls see them.          *)
(***************************************************************************)
Eth0 == <<101, 116, 104, 48>>
Eth1 == <<101, 116, 104, 49>>
Eth2 == <<101, 116, 104, 50>>
Eth9 == <<101, 116, 104, 57>>
EthNonAscii == <<101, 116, 104, 233>>

\* The interfaces probe_interface is called for; when it is called again and
\* again, for one with an address and one without.
InterfaceNames ==
    IF Repeated THEN {Eth0, Eth1} ELSE {Eth0, Eth1, Eth2, Eth9, EthNonAscii}

\* Interfaces that exist: hardware address, and IPv4 address (<<>>: none),
\* as they are when the first probe is called.
BootInterfaces ==
    (Eth0 :> [hw |-> <<170, 187, 204, 221, 238, 255>>, ip |-> <<10, 0, 0, 2>>])
    @@ (Eth1 :> [hw |-> <<2, 0, 0, 0, 0, 1>>, ip |-> <<>>])
    @@ (Eth2 :> [hw |-> <<2, 0, 0, 0, 0, 2>>, ip |-> <<10, 0, 1, 2>>])

\* The same after eth0 was given another card and another address.
Readdressed ==
    [BootInterfaces EXCEPT
       ![Eth0] = [hw |-> <<170, 187, 204, 221, 238, 1>>, ip |-> <<10, 0, 0, 9>>]]

\* What the ioctls see when they are called: the live state.
OSInterfaces == os

\* interface.encode('ascii') raises UnicodeEncodeError on a non-ASCII name.
AsciiEncodable(name) == \A i \in 1..Len(name) : name[i] < 128

\* interface.encode('ascii')[:15]
IfReqName(name) == Slice(name, 0, IfNameMax)

\* The errno of ioctl(SIOCGIFHWADDR), "ok" when it succeeds.
HwAddrErrno(name) ==
    IF IfReqName(name) \in DOMAIN OSInterfaces THEN "ok" ELSE "ENODEV"

\* The struct ifreq ioctl(SIOCGIFHWADDR) fills in: 16 bytes of name, then a
\* sockaddr whose sa_data starts at byte 18.
HwAddrInfo(name) ==
    LET n == IfReqName(name)
    IN  n \o Zeros(16 - Len(n)) \o <<1, 0>> \o OSInterfaces[n].hw \o Zeros(8)

\* get_interface_MAC
get_interface_MAC(name) == FormatMAC(Slice(HwAddrInfo(name), 18, 24))

\* The errno of ioctl(SIOCGIFADDR), "ok" when it succeeds.
IfAddrErrno(name) ==
    IF IfReqName(name) \notin DOMAIN OSInterfaces THEN "ENODEV"
    ELSE IF OSInterfaces[IfReqName(name)].ip = <<>> THEN "EADDRNOTAVAIL"
    ELSE "ok"

\* The struct ifreq ioctl(SIOCGIFADDR) fills in: '16sH2x4s8x'.
IfAddrInfo(name) ==
    LET n == IfReqName(name)
    IN  n \o Zeros(16 - Len(n)) \o <<2, 0>> \o <<0, 0>>
          \o OSInterfaces[n].ip \o Zeros(8)

\* get_interface_IP
get_interface_IP(name) == InetNtoa(Slice(IfAddrInfo(name), 20, 24))

(***************************************************************************)
(* The network, as the listening socket sees it.                           *)
(***************************************************************************)
\* The values randint(0, 255) is let to draw.
RandBytes == {18, 171}

\* for _ in range(4)
XidDraws == 4

\* A pack with a two-byte format.
PackB_TwoBytes(v) == <<0, v>>

\* struct.pack(b'!B', v)
PackB(v) == <<v>>

\* The loop of make_transaction_ID: transaction_id += struct.pack(...).
RECURSIVE XidLoop(_, _)
XidLoop(n, rand) ==
    IF n = 0 THEN <<>> ELSE XidLoop(n - 1, rand) \o PackB(rand[n])

\* make_transaction_ID, given the values randint(0, 255) returns in turn.
make_transaction_ID(rand) == XidLoop(XidDraws, rand)

\* The draws after the first; two probes, at the same time or one after the
\* other, need no more than two transaction IDs each, alike or different.
LaterBytes == IF Concurrent \/ Repeated THEN {18} ELSE RandBytes

TransactionIDs ==
    {make_transaction_ID(<<a, b, c, d>>) : a \in RandBytes, b \in LaterBytes,
                                           c \in LaterBytes, d \in LaterBytes}

\* Addresses of DHCP servers that may answer; 10.0.0.2 is Eth0's own address.
ServerAddrs == {<<10, 0, 0, 1>>, <<10, 0, 0, 2>>}

\* How long a read that returns data has waited: at once, or at the last second.
Waits == {0, IdleTimeout - 1}

\* The transaction ID of the DISCOVER a server saw on the wire.
EchoXid == Slice(wire[1].payload, 4, 8)

\* A transaction ID of an unrelated exchange: it differs in the last byte only.
FlipLast(x) == [x EXCEPT ![4] = 255 - x[4]]

\* The transaction IDs of all the DISCOVERs servers saw on the wire.
WireXids == {Slice(wire[i].payload, 4, 8) : i \in 1..Len(wire)}

\* What may arrive on port 68 while two probes run: whole replies to either
\* probe's DISCOVER, at once.
ConcDatagrams ==
    {[kind |-> "data", xid |-> x, server |-> s, len |-> 249, wait |-> 0] :
        x \in WireXids, s \in {<<10, 0, 0, 1>>}}

\* The transaction ID of the DISCOVER sent last.
SentXid == Slice(wire[Len(wire)].payload, 4, 8)

\* What may arrive on port 68 when probes follow one another: whole replies
\* to the DISCOVER of this call or of an earlier one, or one that differs from
\* this call's in the last byte of the transaction ID.
RunDatagrams ==
    {[kind |-> "data", xid |-> x, server |-> <<10, 0, 0, 1>>, len |-> 249,
      wait |-> 0] : x \in WireXids \cup {FlipLast(SentXid)}}

\* What may arrive on port 68: replies that echo the DISCOVER's transaction ID
\* and replies of unrelated exchanges, whole (249 bytes reach the server
\* identifier's last byte) or cut short.
Datagrams ==
    IF Concurrent THEN ConcDatagrams ELSE
    IF Repeated THEN RunDatagrams ELSE
    {[kind |-> "data", xid |-> x, server |-> s, len |-> 249, wait |-> w] :
        x \in {EchoXid, FlipLast(EchoXid)}, s \in ServerAddrs, w \in Waits}
    \cup
    {[kind |-> "data", xid |-> x, server |-> <<10, 0, 0, 1>>, len |-> n,
      wait |-> 0] : x \in {EchoXid, FlipLast(EchoXid)}, n \in {248, 6}}

\* The bytes of a datagram: a BOOTREPLY carrying xid at 4..7 and, after the
\* options 53 (OFFER) and 54 (server identifier), the server at 245..248.
OfferBytes(d) ==
    LET whole == <<2, 1, 6, 0>> \o d.xid \o Zeros(228)
                 \o <<99, 130, 83, 99>> \o <<53, 1, 2>> \o <<54, 4>>
                 \o d.server \o <<255>> \o Zeros(50)
    IN  SubSeq(whole, 1, d.len)

NoSocket == [state |-> "none", opts |-> {}, bound |-> <<>>, timeout |-> 0]

NoResult == [status |-> "none", value |-> {}, exc |-> NoExc]

Returned(v) == [status |-> "returned", value |-> v, exc |-> NoExc]

Propagated(e) == [status |-> "raised", value |-> {}, exc |-> e]

DataReads == Len(SelectSeq(reads, LAMBDA r : r.kind = "data"))

ReadBound ==
    IF Concurrent THEN MaxConcReads
    ELSE IF Repeated THEN MaxRunReads
    ELSE MaxReads

(***************************************************************************)
(* A second call of probe_interface, in another thread.  Each call has its *)
(* own frame of locals; the variables above are those of the thread that   *)
(* is running, and other holds those of the thread that is not.            *)
(***************************************************************************)
\* The locals of a call that has not started.
FreshLocals ==
    [pc |-> "idle", interface |-> <<>>, sendSock |-> NoSocket,
     recvSock |-> NoSocket, mac |-> <<>>, bind_address |-> <<>>,
     discover |-> NoPacket, transaction_id |-> <<>>, servers |-> {},
     data |-> <<>>, offer |-> NoOffer, exc |-> NoExc, result |-> NoResult,
     final |-> NoResult, reads |-> <<>>]

\* No second call is made.
NoOther == [FreshLocals EXCEPT !.pc = "absent"]

\* No call was made before and none is made after: runs holds the frames of
\* the calls that have ended, left how many more calls may follow.
NoPast == [runs |-> <<>>, left |-> 0]

(***************************************************************************)
(* The state after construction: nothing called yet.                       *)
(***************************************************************************)
Init ==
    /\ pc = "idle"
    /\ interface = <<>>
    /\ sendSock = NoSocket
    /\ recvSock = NoSocket
    /\ mac = <<>>
    /\ bind_address = <<>>
    /\ discover = NoPacket
    /\ transaction_id = <<>>
    /\ servers = {}
    /\ data = <<>>
    /\ offer = NoOffer
    /\ exc = NoExc
    /\ result = NoResult
    /\ final = NoResult
    /\ wire = <<>>
    /\ reads = <<>>
    /\ maaslog = <<>>
    /\ other = NoOther
    /\ past = NoPast
    /\ os = BootInterfaces
    /\ missed = <<>>

\* probe_interface(interface) is called; two calls at the same time are for
\* different interfaces.
Call ==
    /\ pc = "idle"
    /\ \E name \in InterfaceNames \ {other.interface} : interface' = name
    /\ pc' = "rq_socket"
    /\ UNCHANGED <<sendSock, recvSock, mac, bind_address, discover,
                   transaction_id, servers, data, offer, exc, result, final,
                   wire, reads, maaslog>>
    /\ UNCHANGED <<other, past, os, missed>>

(***************************************************************************)
(* request_dhcp                                                            *)
(***************************************************************************)
\* udp_socket: socket.socket(AF_INET, SOCK_DGRAM).  A failure leaves no socket
\* and reaches probe_interface's handler.
RqSocket ==
    /\ pc = "rq_socket"
    /\ \/ /\ sendSock' = [NoSocket EXCEPT !.state = "open"]
          /\ pc' = "rq_reuse"
          /\ UNCHANGED <<exc, result>>
       \/ \E e \in SyscallErrnos :
            /\ exc' = Raised("OSError", e, "rq_socket")
            /\ result' = Propagated(exc')
            /\ pc' = "pi_handle"
            /\ UNCHANGED sendSock
    /\ UNCHANGED <<interface, recvSock, mac, bind_address, discover,
                   transaction_id, servers, data, offer, final, wire, reads,
                   maaslog>>
    /\ UNCHANGED <<other, past, os, missed>>

\* udp_socket: setsockopt(SO_REUSEADDR), before the try: a failure here skips
\* the finally clause.
RqReuse ==
    /\ pc = "rq_reuse"
    /\ \/ /\ sendSock' = [sendSock EXCEPT !.opts = @ \cup {"SO_REUSEADDR"}]
          /\ pc' = "rq_bcast"
          /\ UNCHANGED <<exc, result>>
       \/ \E e \in SyscallErrnos :
            /\ exc' = Raised("OSError", e, "rq_reuse")
            /\ result' = Propagated(exc')
            /\ pc' = "pi_handle"
            /\ UNCHANGED sendSock
    /\ UNCHANGED <<interface, recvSock, mac, bind_address, discover,
                   transaction_id, servers, data, offer, final, wire, reads,
                   maaslog>>
    /\ UNCHANGED <<other, past, os, missed>>

\* request_dhcp: setsockopt(SO_BROADCAST).
RqBcast ==
    /\ pc = "rq_bcast"
    /\ \/ /\ sendSock' = [sendSock EXCEPT !.opts = @ \cup {"SO_BROADCAST"}]
          /\ pc' = "rq_mac"
          /\ UNCHANGED exc
       \/ \E e \in SyscallErrnos :
            /\ exc' = Raised("OSError", e, "rq_bcast")
            /\ pc' = "rq_close"
            /\ UNCHANGED sendSock
    /\ UNCHANGED <<interface, recvSock, mac, bind_address, discover,
                   transaction_id, servers, data, offer, result, final, wire,
                   reads, maaslog>>
    /\ UNCHANGED <<other, past, os, missed>>

\* request_dhcp: mac = get_interface_MAC(sock, interface).
RqMac ==
    /\ pc = "rq_mac"
    /\ IF ~AsciiEncodable(interface)
         THEN /\ exc' = Raised("UnicodeEncodeError", "None", "rq_mac")
              /\ pc' = "rq_close"
              /\ UNCHANGED mac
         ELSE IF HwAddrErrno(interface) # "ok"
         THEN /\ exc' = Raised("OSError", HwAddrErrno(interface), "rq_mac")
              /\ pc' = "rq_close"
              /\ UNCHANGED mac
         ELSE /\ mac' = get_interface_MAC(interface)
              /\ pc' = "rq_ip"
              /\ UNCHANGED exc
    /\ UNCHANGED <<interface, sendSock, recvSock, bind_address, discover,
                   transaction_id, servers, data, offer, result, final, wire,
                   reads, maaslog>>
    /\ UNCHANGED <<other, past, os, missed>>

\* request_dhcp: bind_address = get_interface_IP(sock, interface).
RqIp ==
    /\ pc = "rq_ip"
    /\ IF ~AsciiEncodable(interface)
         THEN /\ exc' = Raised("UnicodeEncodeError", "None", "rq_ip")
              /\ pc' = "rq_close"
              /\ UNCHANGED bind_address
         ELSE IF IfAddrErrno(interface) # "ok"
         THEN /\ exc' = Raised("OSError", IfAddrErrno(interface), "rq_ip")
              /\ pc' = "rq_close"
              /\ UNCHANGED bind_address
         ELSE /\ bind_address' = get_interface_IP(interface)
              /\ pc' = "rq_build"
              /\ UNCHANGED exc
    /\ UNCHANGED <<interface, sendSock, recvSock, mac, discover,
                   transaction_id, servers, data, offer, result, final, wire,
                   reads, maaslog>>
    /\ UNCHANGED <<other, past, os, missed>>

\* request_dhcp: discover = DHCPDiscoverPacket(mac); make_transaction_ID draws
\* the four bytes.
RqBuild ==
    /\ pc = "rq_build"
    /\ \E xid \in TransactionIDs : discover' = DHCPDiscoverPacket(mac, xid)
    /\ pc' = "rq_bind"
    /\ UNCHANGED <<interface, sendSock, recvSock, mac, bind_address,
                   transaction_id, servers, data, offer, exc, result, final,
                   wire, reads, maaslog>>
    /\ UNCHANGED <<other, past, os, missed>>

\* request_dhcp: sock.bind((bind_address, BOOTP_CLIENT_PORT)).
RqBind ==
    /\ pc = "rq_bind"
    /\ \/ /\ sendSock' = [sendSock EXCEPT
                            !.bound = <<bind_address, BOOTP_CLIENT_PORT>>]
          /\ pc' = "rq_send"
          /\ UNCHANGED exc
       \/ \E e \in SyscallErrnos :
            /\ exc' = Raised("OSError", e, "rq_bind")
            /\ pc' = "rq_close"
            /\ UNCHANGED sendSock
    /\ UNCHANGED <<interface, recvSock, mac, bind_address, discover,
                   transaction_id, servers, data, offer, result, final, wire,
                   reads, maaslog>>
    /\ UNCHANGED <<other, past, os, missed>>

\* One datagram on the wire.
Datagram(payload, src) ==
    [payload |-> payload, src |-> src,
     dst |-> <<"<broadcast>", BOOTP_SERVER_PORT>>]

\* A send that repeats the datagram.
SendTo_Twice(w, payload, src) ==
    Append(Append(w, Datagram(payload, src)), Datagram(payload, src))

\* The effect of one successful sock.sendto on the wire.
SendTo(w, payload, src) == Append(w, Datagram(payload, src))

\* request_dhcp: sock.sendto(discover.packet, ('<broadcast>', BOOTP_SERVER_PORT)).
RqSend ==
    /\ pc = "rq_send"
    /\ \/ /\ wire' = SendTo(wire, discover.packet, sendSock.bound)
          /\ UNCHANGED exc
       \/ \E e \in SyscallErrnos :
            /\ exc' = Raised("OSError", e, "rq_send")
            /\ UNCHANGED wire
    /\ pc' = "rq_close"
    /\ UNCHANGED <<interface, sendSock, recvSock, mac, bind_address, discover,
                   transaction_id, servers, data, offer, result, final, reads,
                   maaslog>>
    /\ UNCHANGED <<other, past, os, missed>>

\* A request_dhcp that swallows what was raised and returns all the same.
RqClose_Swallow ==
    /\ pc = "rq_close"
    /\ sendSock' = [sendSock EXCEPT !.state = "closed", !.bound = <<>>]
    /\ transaction_id' = discover.transaction_ID
    /\ exc' = NoExc
    /\ pc' = "rc_socket"
    /\ UNCHANGED <<interface, recvSock, mac, bind_address, discover, servers,
                   data, offer, result, final, wire, reads, maaslog>>
    /\ UNCHANGED <<other, past, os, missed>>

\* A request_dhcp that leaves its socket open when it returns.
RqClose_NoClose ==
    /\ pc = "rq_close"
    /\ IF exc = NoExc
         THEN /\ transaction_id' = discover.transaction_ID
              /\ pc' = "rc_socket"
              /\ UNCHANGED result
         ELSE /\ result' = Propagated(exc)
              /\ pc' = "pi_handle"
              /\ UNCHANGED transaction_id
    /\ UNCHANGED <<interface, sendSock, recvSock, mac, bind_address, discover,
                   servers, data, offer, exc, final, wire, reads, maaslog>>
    /\ UNCHANGED <<other, past, os, missed>>

\* A request_dhcp that hands back the transaction ID it handed back before.
RqClose_KeepsXid ==
    /\ pc = "rq_close"
    /\ sendSock' = [sendSock EXCEPT !.state = "closed", !.bound = <<>>]
    /\ IF exc = NoExc
         THEN /\ transaction_id' = IF transaction_id = <<>>
                                     THEN discover.transaction_ID
                                     ELSE transaction_id
              /\ pc' = "rc_socket"
              /\ UNCHANGED result
         ELSE /\ result' = Propagated(exc)
              /\ pc' = "pi_handle"
              /\ UNCHANGED transaction_id
    /\ UNCHANGED <<interface, recvSock, mac, bind_address, discover, servers,
                   data, offer, exc, final, wire, reads, maaslog>>
    /\ UNCHANGED <<other, past, os, missed>>

\* udp_socket's finally: sock.close(); then request_dhcp returns
\* discover.transaction_ID to probe_dhcp, or the exception goes on.
RqClose ==
    /\ pc = "rq_close"
    /\ sendSock' = [sendSock EXCEPT !.state = "closed", !.bound = <<>>]
    /\ IF exc = NoExc
         THEN /\ transaction_id' = discover.transaction_ID
              /\ pc' = "rc_socket"
              /\ UNCHANGED result
         ELSE /\ result' = Propagated(exc)
              /\ pc' = "pi_handle"
              /\ UNCHANGED transaction_id
    /\ UNCHANGED <<interface, recvSock, mac, bind_address, discover, servers,
                   data, offer, exc, final, wire, reads, maaslog>>
    /\ UNCHANGED <<other, past, os, missed>>

(***************************************************************************)
(* receive_offers                                                          *)
(***************************************************************************)
\* A receive_offers that goes on with the set of servers it finds.
RcSocket_KeepsServers ==
    /\ pc = "rc_socket"
    /\ \/ /\ recvSock' = [NoSocket EXCEPT !.state = "open"]
          /\ pc' = "rc_reuse"
          /\ UNCHANGED <<exc, result>>
       \/ \E e \in SyscallErrnos :
            /\ exc' = Raised("OSError", e, "rc_socket")
            /\ result' = Propagated(exc')
            /\ pc' = "pi_handle"
            /\ UNCHANGED recvSock
    /\ UNCHANGED <<interface, sendSock, mac, bind_address, discover,
                   transaction_id, servers, data, offer, final, wire, reads,
                   maaslog>>
    /\ UNCHANGED <<other, past, os, missed>>

\* servers = set(); udp_socket: socket.socket(AF_INET, SOCK_DGRAM).
RcSocket ==
    /\ pc = "rc_socket"
    /\ servers' = {}
    /\ \/ /\ recvSock' = [NoSocket EXCEPT !.state = "open"]
          /\ pc' = "rc_reuse"
          /\ UNCHANGED <<exc, result>>
       \/ \E e \in SyscallErrnos :
            /\ exc' = Raised("OSError", e, "rc_socket")
            /\ result' = Propagated(exc')
            /\ pc' = "pi_handle"
            /\ UNCHANGED recvSock
    /\ UNCHANGED <<interface, sendSock, mac, bind_address, discover,
                   transaction_id, data, offer, final, wire, reads, maaslog>>
    /\ UNCHANGED <<other, past, os, missed>>

\* udp_socket: setsockopt(SO_REUSEADDR), before the try.
RcReuse ==
    /\ pc = "rc_reuse"
    /\ \/ /\ recvSock' = [recvSock EXCEPT !.opts = @ \cup {"SO_REUSEADDR"}]
          /\ pc' = "rc_bind"
          /\ UNCHANGED <<exc, result>>
       \/ \E e \in SyscallErrnos :
            /\ exc' = Raised("OSError", e, "rc_reuse")
            /\ result' = Propagated(exc')
            /\ pc' = "pi_handle"
            /\ UNCHANGED recvSock
    /\ UNCHANGED <<interface, sendSock, mac, bind_address, discover,
                   transaction_id, servers, data, offer, final, wire, reads,
                   maaslog>>
    /\ UNCHANGED <<other, past, os, missed>>

\* A listening socket bound to the interface's own address.
RcBind_InterfaceAddr ==
    /\ pc = "rc_bind"
    /\ \/ /\ recvSock' = [recvSock EXCEPT
                            !.bound = <<bind_address, BOOTP_CLIENT_PORT>>]
          /\ pc' = "rc_recv"
          /\ UNCHANGED exc
       \/ \E e \in SyscallErrnos :
            /\ exc' = Raised("OSError", e, "rc_bind")
            /\ pc' = "rc_close"
            /\ UNCHANGED recvSock
    /\ UNCHANGED <<interface, sendSock, mac, bind_address, discover,
                   transaction_id, servers, data, offer, result, final, wire,
                   reads, maaslog>>
    /\ UNCHANGED <<other, past, os, missed>>

\* receive_offers: sock.bind(('', BOOTP_CLIENT_PORT)), outside the inner try.
RcBind ==
    /\ pc = "rc_bind"
    /\ \/ /\ recvSock' = [recvSock EXCEPT !.bound = <<<<>>, BOOTP_CLIENT_PORT>>]
          /\ pc' = "rc_recv"
          /\ UNCHANGED exc
       \/ \E e \in SyscallErrnos :
            /\ exc' = Raised("OSError", e, "rc_bind")
            /\ pc' = "rc_close"
            /\ UNCHANGED recvSock
    /\ UNCHANGED <<interface, sendSock, mac, bind_address, discover,
                   transaction_id, servers, data, offer, result, final, wire,
                   reads, maaslog>>
    /\ UNCHANGED <<other, past, os, missed>>

\* The loop's sock.settimeout(3); data = sock.recv(1024): a datagram, the
\* timeout, or an error of the operating system.
RcRecv ==
    /\ pc = "rc_recv"
    /\ recvSock' = [recvSock EXCEPT !.timeout = IdleTimeout]
    /\ \/ /\ DataReads < ReadBound
          /\ \E d \in Datagrams :
               /\ data' = Slice(OfferBytes(d), 0, RecvBufSize)
               /\ reads' = Append(reads, d)
          /\ pc' = "rc_decode"
          /\ UNCHANGED exc
       \/ /\ exc' = Raised("timeout", "None", "rc_recv")
          /\ reads' = Append(reads, [kind |-> "timeout", xid |-> <<>>,
                                     server |-> <<>>, len |-> 0,
                                     wait |-> recvSock'.timeout])
          /\ pc' = "rc_except"
          /\ UNCHANGED data
       \/ \E e \in SyscallErrnos :
            /\ exc' = Raised("OSError", e, "rc_recv")
            /\ reads' = Append(reads, [kind |-> "error", xid |-> <<>>,
                                       server |-> <<>>, len |-> 0, wait |-> 0])
            /\ pc' = "rc_except"
            /\ UNCHANGED data
    /\ UNCHANGED <<interface, sendSock, mac, bind_address, discover,
                   transaction_id, servers, offer, result, final, wire, maaslog>>
    /\ UNCHANGED <<other, past, os, missed>>

\* A loop that looks at the transaction ID first and skips what is not its own.
RcDecode_CompareFirst ==
    /\ pc = "rc_decode"
    /\ IF Slice(data, 4, 8) # transaction_id
         THEN /\ pc' = "rc_recv"
              /\ UNCHANGED <<offer, exc>>
         ELSE IF OfferDecodes(data)
         THEN /\ offer' = DHCPOfferPacket(data)
              /\ pc' = "rc_compare"
              /\ UNCHANGED exc
         ELSE /\ exc' = Raised("OSError", "None", "rc_decode")
              /\ pc' = "rc_except"
              /\ UNCHANGED offer
    /\ UNCHANGED <<interface, sendSock, recvSock, mac, bind_address, discover,
                   transaction_id, servers, data, result, final, wire, reads,
                   maaslog>>
    /\ UNCHANGED <<other, past, os, missed>>

\* The loop's offer = DHCPOfferPacket(data).
RcDecode ==
    /\ pc = "rc_decode"
    /\ IF OfferDecodes(data)
         THEN /\ offer' = DHCPOfferPacket(data)
              /\ pc' = "rc_compare"
              /\ UNCHANGED exc
         ELSE /\ exc' = Raised("OSError", "None", "rc_decode")
              /\ pc' = "rc_except"
              /\ UNCHANGED offer
    /\ UNCHANGED <<interface, sendSock, recvSock, mac, bind_address, discover,
                   transaction_id, servers, data, result, final, wire, reads,
                   maaslog>>
    /\ UNCHANGED <<other, past, os, missed>>

\* An assignment where the code adds.
AddIfMatch_Replace(s, o, tid) ==
    IF o.transaction_ID = tid THEN {o.dhcp_server_ID} ELSE s

\* if offer.transaction_ID == transaction_id: servers.add(offer.dhcp_server_ID)
AddIfMatch(s, o, tid) ==
    IF o.transaction_ID = tid THEN s \cup {o.dhcp_server_ID} ELSE s

\* A loop that gives up once it has listened longer than one idle timeout.
RcCompare_WallClockCap ==
    /\ pc = "rc_compare"
    /\ servers' = AddIfMatch(servers, offer, transaction_id)
    /\ pc' = IF Len(reads) * (IdleTimeout - 1) > IdleTimeout
               THEN "rc_close" ELSE "rc_recv"
    /\ UNCHANGED <<interface, sendSock, recvSock, mac, bind_address, discover,
                   transaction_id, data, offer, exc, result, final, wire,
                   reads, maaslog>>
    /\ UNCHANGED <<other, past, os, missed>>

\* A loop that ends at the first datagram of another exchange.
RcCompare_StopOnForeign ==
    /\ pc = "rc_compare"
    /\ servers' = AddIfMatch(servers, offer, transaction_id)
    /\ pc' = IF offer.transaction_ID = transaction_id
               THEN "rc_recv" ELSE "rc_close"
    /\ UNCHANGED <<interface, sendSock, recvSock, mac, bind_address, discover,
                   transaction_id, data, offer, exc, result, final, wire,
                   reads, maaslog>>
    /\ UNCHANGED <<other, past, os, missed>>

\* The loop's comparison and insertion.
RcCompare ==
    /\ pc = "rc_compare"
    /\ servers' = AddIfMatch(servers, offer, transaction_id)
    /\ pc' = "rc_recv"
    /\ UNCHANGED <<interface, sendSock, recvSock, mac, bind_address, discover,
                   transaction_id, data, offer, exc, result, final, wire,
                   reads, maaslog>>
    /\ UNCHANGED <<other, past, os, missed>>

\* A handler that catches every socket error.
Caught_AnyError(e) == IsIOError(e)

\* A loop without the handler.
Caught_Never(e) == FALSE

\* except socket.timeout:
Caught(e) == e.kind = "timeout"

\* except socket.timeout: return servers.  Anything else goes on.
RcExcept ==
    /\ pc = "rc_except"
    /\ exc' = IF Caught(exc) THEN NoExc ELSE exc
    /\ pc' = "rc_close"
    /\ UNCHANGED <<interface, sendSock, recvSock, mac, bind_address, discover,
                   transaction_id, servers, data, offer, result, final, wire,
                   reads, maaslog>>
    /\ UNCHANGED <<other, past, os, missed>>

\* A receive_offers that returns what it has gathered when a read fails.
RcClose_PartialResult ==
    /\ pc = "rc_close"
    /\ recvSock' = [recvSock EXCEPT !.state = "closed", !.bound = <<>>]
    /\ result' = IF exc = NoExc \/ servers # {} THEN Returned(servers)
                 ELSE Propagated(exc)
    /\ pc' = "pi_handle"
    /\ UNCHANGED <<interface, sendSock, mac, bind_address, discover,
                   transaction_id, servers, data, offer, exc, final, wire,
                   reads, maaslog>>
    /\ UNCHANGED <<other, past, os, missed>>

\* udp_socket's finally: sock.close(); then receive_offers, and probe_dhcp
\* with it, returns servers or the exception goes on.
RcClose ==
    /\ pc = "rc_close"
    /\ recvSock' = [recvSock EXCEPT !.state = "closed", !.bound = <<>>]
    /\ result' = IF exc = NoExc THEN Returned(servers) ELSE Propagated(exc)
    /\ pc' = "pi_handle"
    /\ UNCHANGED <<interface, sendSock, mac, bind_address, discover,
                   transaction_id, servers, data, offer, exc, final, wire,
                   reads, maaslog>>
    /\ UNCHANGED <<other, past, os, missed>>

(***************************************************************************)
(* probe_interface                                                         *)
(***************************************************************************)
\* A handler without the EADDRNOTAVAIL branch.
Outcome_NoAddrRaises(r) ==
    IF r.status = "returned" THEN [final |-> Returned(r.value), log |-> <<>>]
    ELSE IF ~IsIOError(r.exc) THEN [final |-> Propagated(r.exc), log |-> <<>>]
    ELSE IF r.exc.errno = "ENODEV"
      THEN [final |-> Returned({}), log |-> <<"error">>]
    ELSE [final |-> Propagated(r.exc), log |-> <<>>]

\* A handler whose first branch takes both errno values.
Outcome_OneBranch(r) ==
    IF r.status = "returned" THEN [final |-> Returned(r.value), log |-> <<>>]
    ELSE IF ~IsIOError(r.exc) THEN [final |-> Propagated(r.exc), log |-> <<>>]
    ELSE IF r.exc.errno \in {"EADDRNOTAVAIL", "ENODEV"}
      THEN [final |-> Returned({}), log |-> <<"debug">>]
    ELSE [final |-> Propagated(r.exc), log |-> <<>>]

\* A handler without the final raise.
Outcome_NoReraise(r) ==
    IF r.status = "returned" THEN [final |-> Returned(r.value), log |-> <<>>]
    ELSE IF ~IsIOError(r.exc) THEN [final |-> Propagated(r.exc), log |-> <<>>]
    ELSE IF r.exc.errno = "EADDRNOTAVAIL"
      THEN [final |-> Returned({}), log |-> <<"debug">>]
    ELSE IF r.exc.errno = "ENODEV"
      THEN [final |-> Returned({}), log |-> <<"error">>]
    ELSE [final |-> Returned({}), log |-> <<>>]

\* A handler that absorbs the two errno values from address resolution only.
Outcome_ResolutionOnly(r) ==
    IF r.status = "returned" THEN [final |-> Returned(r.value), log |-> <<>>]
    ELSE IF ~IsIOError(r.exc) THEN [final |-> Propagated(r.exc), log |-> <<>>]
    ELSE IF r.exc.errno = "EADDRNOTAVAIL" /\ r.exc.at \in {"rq_mac", "rq_ip"}
      THEN [final |-> Returned({}), log |-> <<"debug">>]
    ELSE IF r.exc.errno = "ENODEV" /\ r.exc.at \in {"rq_mac", "rq_ip"}
      THEN [final |-> Returned({}), log |-> <<"error">>]
    ELSE [final |-> Propagated(r.exc), log |-> <<>>]

\* probe_interface's try/except: what it returns or raises, and what it logs,
\* given what probe_dhcp returned or raised.
Outcome(r) ==
    IF r.status = "returned" THEN [final |-> Returned(r.value), log |-> <<>>]
    ELSE IF ~IsIOError(r.exc) THEN [final |-> Propagated(r.exc), log |-> <<>>]
    ELSE IF r.exc.errno = "EADDRNOTAVAIL"
      THEN [final |-> Returned({}), log |-> <<"debug">>]
    ELSE IF r.exc.errno = "ENODEV"
      THEN [final |-> Returned({}), log |-> <<"error">>]
    ELSE [final |-> Propagated(r.exc), log |-> <<>>]

\* probe_interface, once probe_dhcp has returned or raised.
PiHandle ==
    /\ pc = "pi_handle"
    /\ final' = Outcome(result).final
    /\ maaslog' = maaslog \o Outcome(result).log
    /\ pc' = "done"
    /\ UNCHANGED <<interface, sendSock, recvSock, mac, bind_address, discover,
                   transaction_id, servers, data, offer, exc, result, wire,
                   reads>>
    /\ UNCHANGED <<other, past, os, missed>>

Next ==
    \/ Call
    \/ RqSocket \/ RqReuse \/ RqBcast \/ RqMac \/ RqIp \/ RqBuild \/ RqBind
    \/ RqSend \/ RqClose
    \/ RcSocket \/ RcReuse \/ RcBind \/ RcRecv \/ RcDecode \/ RcCompare
    \/ RcExcept \/ RcClose
    \/ PiHandle

Spec == Init /\ [][Next]_vars

\* The program runs on: a step that can be taken is eventually taken.
FairSpec == Spec /\ WF_vars(Next)

(***************************************************************************)
(* The codec and the generator on their own: make_transaction_ID called    *)
(* any number of times, a DISCOVER built from a hardware address, and a    *)
(* reply that echoes its transaction ID decoded.                           *)
(***************************************************************************)
\* The values randint(0, 255) is let to draw here.
CodecBytes == {0, 18, 255}

\* Hardware addresses the ioctl may report.
CodecMACs == {<<170, 187, 204, 221, 238, 255>>, <<2, 0, 0, 0, 0, 1>>,
              <<0, 10, 16, 255, 9, 128>>}

\* Server identifiers a reply may carry.
CodecServers == {<<10, 0, 0, 1>>, <<10, 0, 0, 2>>, <<192, 168, 1, 254>>,
                 <<255, 255, 255, 255>>, <<0, 0, 0, 0>>}

CodecInit ==
    /\ pc = "codec"
    /\ interface = <<>>
    /\ sendSock = NoSocket
    /\ recvSock = NoSocket
    /\ mac = <<>>
    /\ bind_address = <<>>
    /\ discover = NoPacket
    /\ transaction_id = <<>>
    /\ servers = {}
    /\ data = <<>>
    /\ offer = NoOffer
    /\ exc = NoExc
    /\ result = NoResult
    /\ final = NoResult
    /\ wire = <<>>
    /\ reads = <<>>
    /\ maaslog = <<>>
    /\ other = NoOther
    /\ past = NoPast
    /\ os = BootInterfaces
    /\ missed = <<>>

\* make_transaction_ID()
CodecGenerate ==
    /\ pc = "codec"
    /\ \E a \in CodecBytes, b \in CodecBytes, c \in CodecBytes, d \in CodecBytes :
          transaction_id' = make_transaction_ID(<<a, b, c, d>>)
    /\ UNCHANGED <<pc, interface, sendSock, recvSock, mac, bind_address,
                   discover, servers, data, offer, exc, result, final, wire,
                   reads, maaslog>>
    /\ UNCHANGED <<other, past, os, missed>>

\* mac = get_interface_MAC's text of a hardware address;
\* discover = DHCPDiscoverPacket(mac), as the first call made.
CodecEncode ==
    /\ pc = "codec"
    /\ transaction_id = <<>>
    /\ \E hw \in CodecMACs :
        \E a \in CodecBytes, b \in CodecBytes, c \in CodecBytes, d \in CodecBytes :
          /\ mac' = FormatMAC(hw)
          /\ discover' = DHCPDiscoverPacket(mac', make_transaction_ID(<<a, b, c, d>>))
          /\ reads' = <<[kind |-> "encode", hw |-> hw, rand |-> <<a, b, c, d>>]>>
    /\ pc' = "codec_built"
    /\ UNCHANGED <<interface, sendSock, recvSock, bind_address, transaction_id,
                   servers, data, offer, exc, result, final, wire, maaslog>>
    /\ UNCHANGED <<other, past, os, missed>>

\* data = sock.recv(1024): a reply that echoes bytes 4..7 of the DISCOVER.
CodecRecv ==
    /\ pc = "codec_built"
    /\ \E s \in CodecServers, n \in {249, 300} :
          LET d == [kind |-> "data", xid |-> Slice(discover.packet, 4, 8),
                    server |-> s, len |-> n, wait |-> 0]
          IN  /\ data' = Slice(OfferBytes(d), 0, RecvBufSize)
              /\ reads' = Append(reads, d)
    /\ pc' = "codec_recv"
    /\ UNCHANGED <<interface, sendSock, recvSock, mac, bind_address, discover,
                   transaction_id, servers, offer, exc, result, final, wire,
                   maaslog>>
    /\ UNCHANGED <<other, past, os, missed>>

\* offer = DHCPOfferPacket(data)
CodecDecode ==
    /\ pc = "codec_recv"
    /\ OfferDecodes(data)
    /\ offer' = DHCPOfferPacket(data)
    /\ pc' = "codec_done"
    /\ UNCHANGED <<interface, sendSock, recvSock, mac, bind_address, discover,
                   transaction_id, servers, data, exc, result, final, wire,
                   reads, maaslog>>
    /\ UNCHANGED <<other, past, os, missed>>

CodecNext == CodecGenerate \/ CodecEncode \/ CodecRecv \/ CodecDecode

CodecSpec == CodecInit /\ [][CodecNext]_vars

(***************************************************************************)
(* What the properties below speak of.                                     *)
(***************************************************************************)
ListeningPcs == {"rc_socket", "rc_reuse", "rc_bind", "rc_recv", "rc_decode",
                 "rc_compare", "rc_except", "rc_close"}

LastRead == reads[Len(reads)]

\* A datagram that carries the transaction ID of the DISCOVER that was sent.
CarriesSentXid(r) == r.kind = "data" /\ r.len >= 8 /\ r.xid = EchoXid

\* A datagram that carries another transaction ID in its bytes 4..7.
CarriesOtherXid(r) == r.kind = "data" /\ r.len >= 8 /\ r.xid # EchoXid

\* The reads the loop is through with: all but one still being decoded or compared.
ProcessedReads ==
    IF pc \in {"rc_decode", "rc_compare"} THEN 1..(Len(reads) - 1)
    ELSE 1..Len(reads)

\* The server addresses, as bytes, of the matching datagrams read so far.
MatchingServers(upto) ==
    {reads[i].server : i \in {j \in upto : CarriesSentXid(reads[j])}}

\* The text of the addresses the claims name.
Dotted(addr) ==
    IF addr = <<10, 0, 0, 1>> THEN <<"1", "0", ".", "0", ".", "0", ".", "1">>
    ELSE IF addr = <<10, 0, 0, 2>>
      THEN <<"1", "0", ".", "0", ".", "0", ".", "2">>
    ELSE IF addr = <<192, 168, 1, 254>>
      THEN <<"1", "9", "2", ".", "1", "6", "8", ".", "1", ".", "2", "5", "4">>
    ELSE IF addr = <<255, 255, 255, 255>>
      THEN <<"2", "5", "5", ".", "2", "5", "5", ".", "2", "5", "5", ".",
             "2", "5", "5">>
    ELSE IF addr = <<0, 0, 0, 0>>
      THEN <<"0", ".", "0", ".", "0", ".", "0">>
    ELSE <<>>

RECURSIVE SumWaits(_)
SumWaits(rs) == IF rs = <<>> THEN 0 ELSE Head(rs).wait + SumWaits(Tail(rs))

(***************************************************************************)
(* C1.  Every datagram read whose transaction ID differs from the one sent *)
(* is discarded: after it the probe is still in its listening loop (it has *)
(* neither ended nor failed), and the set of servers holds no address that *)
(* only non-matching datagrams carried.                                    *)
(***************************************************************************)
C1_NonMatchingDiscarded ==
    /\ (Len(reads) > 0 /\ CarriesOtherXid(LastRead))
          => pc \in {"rc_decode", "rc_compare", "rc_recv"}
    /\ wire # <<>> =>
          servers \subseteq {Dotted(a) : a \in MatchingServers(1..Len(reads))}

(***************************************************************************)
(* C2.  When probe_dhcp returns normally, what it returns holds the server *)
(* address of every datagram read with the transaction ID that was sent,   *)
(* and probe_interface returns that same set.                              *)
(***************************************************************************)
C2_MatchingOffersKept ==
    result.status = "returned" =>
        /\ \A a \in MatchingServers(1..Len(reads)) : Dotted(a) \in result.value
        /\ pc = "done" =>
             /\ final.status = "returned"
             /\ \A a \in MatchingServers(1..Len(reads)) : Dotted(a) \in final.value

C2_Witness ==
    /\ pc = "done"
    /\ final.status = "returned"
    /\ MatchingServers(1..Len(reads)) = ServerAddrs
    /\ Cardinality(final.value) = 2

(***************************************************************************)
(* C3.  The result is a set: it has as many entries as there are distinct  *)
(* server addresses among the matching datagrams read, however often each  *)
(* server answered.                                                        *)
(***************************************************************************)
C3_SetSemantics ==
    /\ pc \in {"rc_recv", "rc_decode", "rc_compare"} =>
         Cardinality(servers) = Cardinality(MatchingServers(ProcessedReads))
    /\ result.status = "returned" =>
         Cardinality(result.value)
            = Cardinality(MatchingServers(1..Len(reads)))

C3_Witness ==
    /\ result.status = "returned"
    /\ Len(reads) = 3
    /\ CarriesSentXid(reads[1]) /\ CarriesSentXid(reads[2])
    /\ reads[1].server = reads[2].server
    /\ Cardinality(result.value) = 1

(***************************************************************************)
(* C4.  When resolving the interface's IPv4 address fails with             *)
(* EADDRNOTAVAIL, probe_interface returns the empty set and raises nothing.*)
(***************************************************************************)
C4_NoAddressAvailable ==
    (pc = "done" /\ result.exc = Raised("OSError", "EADDRNOTAVAIL", "rq_ip"))
       => final = Returned({})

C4_Witness ==
    /\ pc = "done"
    /\ interface = Eth1
    /\ result.exc = Raised("OSError", "EADDRNOTAVAIL", "rq_ip")
    /\ final = Returned({})

(***************************************************************************)
(* C5.  When the interface does not exist, so that resolution fails with   *)
(* ENODEV, probe_interface returns the empty set and raises nothing, and   *)
(* it gets there through the branch that logs an error, where the          *)
(* EADDRNOTAVAIL branch logs at debug level.                               *)
(***************************************************************************)
C5_DeviceNotFound ==
    /\ (pc = "done" /\ result.exc = Raised("OSError", "ENODEV", "rq_mac"))
          => (final = Returned({}) /\ maaslog = <<"error">>)
    /\ (pc = "done" /\ result.exc = Raised("OSError", "EADDRNOTAVAIL", "rq_ip"))
          => (final = Returned({}) /\ maaslog = <<"debug">>)

C5_Witness ==
    /\ pc = "done"
    /\ interface = Eth9
    /\ result.exc = Raised("OSError", "ENODEV", "rq_mac")
    /\ final = Returned({})
    /\ maaslog = <<"error">>

(***************************************************************************)
(* C6.  Whatever probe_dhcp raises that is not an I/O error with errno     *)
(* EADDRNOTAVAIL or ENODEV leaves probe_interface as the same exception;   *)
(* probe_interface does not return in that case.                           *)
(***************************************************************************)
C6_OtherFailuresPropagate ==
    (/\ pc = "done"
     /\ result.status = "raised"
     /\ ~(/\ result.exc.kind \in {"OSError", "timeout"}
          /\ result.exc.errno \in {"EADDRNOTAVAIL", "ENODEV"}))
       => (final.status = "raised" /\ final.exc = result.exc)

\* An I/O error with another errno, one with no errno, and one that is no I/O error.
C6_Witness ==
    /\ pc = "done"
    /\ final.status = "raised"
    /\ \/ final.exc = Raised("OSError", "EACCES", "rq_bind")
       \/ final.exc = Raised("OSError", "None", "rc_decode")
       \/ final.exc = Raised("UnicodeEncodeError", "None", "rq_mac")

(***************************************************************************)
(* C7.  probe_dhcp does not absorb a failed address resolution: on an      *)
(* interface without IPv4 address or that does not exist it never returns  *)
(* normally, sends no DISCOVER and never opens the listening socket, and   *)
(* when the resolution is what failed, it raises that error with the send  *)
(* socket closed.                                                          *)
(***************************************************************************)
C7_ResolutionFailurePropagates ==
    (pc \in {"pi_handle", "done"} /\ interface \in {Eth1, Eth9}) =>
        /\ result.status = "raised"
        /\ wire = <<>>
        /\ recvSock.state = "none"
        /\ result.exc.at \in {"rq_mac", "rq_ip"} =>
             /\ result.exc.kind = "OSError"
             /\ result.exc.errno
                  = (IF interface = Eth1 THEN "EADDRNOTAVAIL" ELSE "ENODEV")
             /\ sendSock.state = "closed"

C7_Witness ==
    /\ pc = "pi_handle"
    /\ interface = Eth1
    /\ result = Propagated(Raised("OSError", "EADDRNOTAVAIL", "rq_ip"))
    /\ wire = <<>>
    /\ sendSock.state = "closed"
    /\ recvSock.state = "none"

(***************************************************************************)
(* C8.  A probe sends at most one DISCOVER, and one that has reached       *)
(* listening has sent exactly one, whatever it has read since.             *)
(***************************************************************************)
C8_OneDiscover ==
    /\ Len(wire) <= 1
    /\ (pc \in ListeningPcs \/ recvSock.state # "none") => Len(wire) = 1

C8_Witness ==
    /\ pc = "done"
    /\ Len(wire) = 1
    /\ Len(reads) = 3

(***************************************************************************)
(* C9.  Listening ends at the first read that times out: no read follows a *)
(* timeout, probe_dhcp returns normally only after a timeout, and after a  *)
(* timeout it returns the servers gathered so far instead of raising.      *)
(***************************************************************************)
C9_TimeoutEndsListening ==
    /\ \A i \in 1..Len(reads) : reads[i].kind = "timeout" => i = Len(reads)
    /\ pc \in {"rc_recv", "rc_decode", "rc_compare"} =>
          \A i \in 1..Len(reads) : reads[i].kind = "data"
    /\ result.status = "returned" =>
          (Len(reads) > 0 /\ LastRead.kind = "timeout")
    /\ (pc \in {"pi_handle", "done"} /\ Len(reads) > 0
          /\ LastRead.kind = "timeout") => result = Returned(servers)
    /\ (pc = "done" /\ Len(reads) > 0 /\ LastRead.kind = "timeout")
          => final = Returned(servers)

C9_Witness ==
    /\ pc = "done"
    /\ Len(reads) = 3
    /\ LastRead.kind = "timeout"
    /\ final = Returned(servers)
    /\ servers # {}

(***************************************************************************)
(* C10.  When the first read of the listening loop times out, it was the   *)
(* only read, it waited one idle timeout and no longer, probe_interface    *)
(* returns the empty set, and it does return.                              *)
(***************************************************************************)
C10_SilentNetwork ==
    /\ [](/\ (Len(reads) > 0 /\ reads[1].kind = "timeout") =>
               /\ Len(reads) = 1
               /\ SumWaits(reads) = 3
               /\ pc \in {"rc_except", "rc_close", "pi_handle", "done"}
          /\ (pc = "done" /\ Len(reads) > 0 /\ reads[1].kind = "timeout") =>
               final = Returned({}))
    /\ (Len(reads) > 0 /\ reads[1].kind = "timeout") ~> (pc = "done")

C10_Witness ==
    /\ pc = "done"
    /\ interface = Eth0
    /\ Len(reads) = 1
    /\ reads[1].kind = "timeout"
    /\ reads[1].wait = 3
    /\ final = Returned({})

(***************************************************************************)
(* C11.  Listening has no bound of its own: every datagram read has waited *)
(* less than 3 seconds, and as long as every read has returned a datagram  *)
(* the probe is still in its loop, however long it has listened in all;    *)
(* when probe_dhcp returns, the last read is the timeout, 3 seconds after  *)
(* the last datagram.                                                      *)
(***************************************************************************)
C11_NoTotalBound ==
    /\ \A i \in 1..Len(reads) : reads[i].kind = "data" => reads[i].wait < 3
    /\ (Len(reads) > 0
          /\ \A i \in 1..Len(reads) :
                reads[i].kind = "data" /\ reads[i].len >= 249)
          => pc \in {"rc_recv", "rc_decode", "rc_compare"}
    /\ result.status = "returned" =>
          /\ LastRead.kind = "timeout"
          /\ LastRead.wait = 3
          /\ SumWaits(reads) <= 3 * Len(reads)

\* The probe still reads after more than one idle timeout of listening.
C11_Witness ==
    /\ pc = "rc_recv"
    /\ Len(reads) >= 2
    /\ \A i \in 1..Len(reads) : reads[i].kind = "data"
    /\ SumWaits(reads) > 3

(***************************************************************************)
(* C12.  As claimed: for every transaction ID and every 6-byte hardware    *)
(* address, the encoded DISCOVER datagram is exactly 300 bytes long.       *)
(***************************************************************************)
C12_Exactly300 ==
    pc \in {"codec_built", "codec_recv", "codec_done"} =>
        Len(discover.packet) = 300

(***************************************************************************)
(* C12, amended.  For every transaction ID and every 6-byte hardware       *)
(* address, the encoded DISCOVER datagram is exactly 257 bytes long: it    *)
(* ends with the End option at byte 256.                                   *)
(***************************************************************************)
C12_Exactly257 ==
    pc \in {"codec_built", "codec_recv", "codec_done"} =>
        /\ Len(discover.packet) = 257
        /\ discover.packet[257] = 255

C12_Witness ==
    /\ pc = "codec_built"
    /\ reads[1].hw = <<170, 187, 204, 221, 238, 255>>
    /\ reads[1].rand = <<255, 255, 255, 255>>
    /\ Len(discover.packet) = 257

(***************************************************************************)
(* C13.  The constant fields of the encoded DISCOVER sit at the offsets of *)
(* the layout table: 01 01 06 00 at 0..3, 00 00 at 8..9, 80 00 at 10..11,  *)
(* zeros at 12..27 and 34..235, the magic cookie at 236..239, 35 01 01 at  *)
(* 240..242, 37 03 03 01 06 at 251..255 and ff at 256.                     *)
(***************************************************************************)
C13_ConstantFields ==
    pc \in {"codec_built", "codec_recv", "codec_done"} =>
        LET p == discover.packet
        IN  /\ Len(p) >= 257
            /\ SubSeq(p, 1, 4) = <<1, 1, 6, 0>>
            /\ SubSeq(p, 9, 10) = <<0, 0>>
            /\ SubSeq(p, 11, 12) = <<128, 0>>
            /\ \A i \in (12..27) \cup (34..235) : p[i + 1] = 0
            /\ SubSeq(p, 237, 240) = <<99, 130, 83, 99>>
            /\ SubSeq(p, 241, 243) = <<53, 1, 1>>
            /\ SubSeq(p, 252, 256) = <<55, 3, 3, 1, 6>>
            /\ p[257] = 255

C13_Witness ==
    /\ pc = "codec_built"
    /\ reads[1].hw = <<2, 0, 0, 0, 0, 1>>
    /\ reads[1].rand = <<0, 0, 0, 0>>
    /\ SubSeq(discover.packet, 237, 240) = <<99, 130, 83, 99>>

(***************************************************************************)
(* C14.  The encoded DISCOVER carries the transaction ID drawn at bytes    *)
(* 4..7, the hardware address at bytes 28..33, and 3d 06 followed by the   *)
(* hardware address at bytes 243..250.                                     *)
(***************************************************************************)
C14_VariableFields ==
    pc \in {"codec_built", "codec_recv", "codec_done"} =>
        LET p == discover.packet
            M == reads[1].hw
            T == reads[1].rand
        IN  /\ Len(p) >= 251
            /\ SubSeq(p, 5, 8) = T
            /\ SubSeq(p, 29, 34) = M
            /\ SubSeq(p, 244, 251) = <<61, 6>> \o M

C14_Witness ==
    /\ pc = "codec_built"
    /\ reads[1].hw = <<0, 10, 16, 255, 9, 128>>
    /\ reads[1].rand = <<18, 0, 255, 18>>
    /\ SubSeq(discover.packet, 244, 251) = <<61, 6, 0, 10, 16, 255, 9, 128>>
    /\ SubSeq(discover.packet, 5, 8) = <<18, 0, 255, 18>>

(***************************************************************************)
(* C15.  Round trip: decoding a reply of at least 249 bytes that carries   *)
(* bytes 4..7 of an encoded DISCOVER and a server address S at 245..248    *)
(* gives the transaction ID the DISCOVER was built with and the dotted     *)
(* text of S.                                                              *)
(***************************************************************************)
C15_RoundTrip ==
    pc = "codec_done" =>
        /\ Len(data) >= 249
        /\ offer.transaction_ID = reads[1].rand
        /\ offer.transaction_ID = discover.transaction_ID
        /\ offer.dhcp_server_ID = Dotted(reads[2].server)

C15_Witness ==
    /\ pc = "codec_done"
    /\ reads[2].server = <<192, 168, 1, 254>>
    /\ reads[2].len = 249
    /\ reads[1].rand = <<0, 18, 255, 0>>
    /\ offer.transaction_ID = <<0, 18, 255, 0>>
    /\ offer.dhcp_server_ID = Dotted(<<192, 168, 1, 254>>)

(***************************************************************************)
(* C16.  Decoding reads bytes 4..7 and 245..248 only: a datagram of at     *)
(* least 249 bytes and any other that agrees with it on those eight bytes  *)
(* (another op code, magic cookie, message type, other bytes everywhere    *)
(* else, more bytes after) decode to the same offer, and the loop does the *)
(* same with both.                                                         *)
(***************************************************************************)
\* Datagrams that agree with d on bytes 4..7 and 245..248.
Variants(d) ==
    {[d EXCEPT ![1] = 1],
     [d EXCEPT ![237] = 0],
     [d EXCEPT ![243] = 5],
     d \o <<1, 2, 3>>,
     [i \in 1..Len(d) |->
        IF i \in (5..8) \cup (246..249) THEN d[i] ELSE (d[i] + 1) % 256]}

C16_OnlyEightBytesRead ==
    /\ (pc = "rc_decode" /\ Len(data) >= 249) =>
          \A v \in Variants(data) :
             /\ OfferDecodes(v)
             /\ DHCPOfferPacket(v) = DHCPOfferPacket(data)
    /\ pc = "rc_compare" =>
          \A v \in Variants(data) :
             /\ DHCPOfferPacket(v) = offer
             /\ AddIfMatch(servers, DHCPOfferPacket(v), transaction_id)
                  = AddIfMatch(servers, offer, transaction_id)

C16_Witness ==
    /\ pc = "rc_compare"
    /\ Len(data) = 249
    /\ offer.transaction_ID = transaction_id
    /\ DHCPOfferPacket([data EXCEPT ![243] = 5]) = offer

(***************************************************************************)
(* C17.  Every transaction ID the generator gives, in any number of calls  *)
(* and inside DHCPDiscoverPacket, is 4 bytes long with every byte in       *)
(* 0..255, and nothing is raised.                                          *)
(***************************************************************************)
C17_FourBytes ==
    /\ transaction_id # <<>> =>
          /\ Len(transaction_id) = 4
          /\ \A i \in 1..Len(transaction_id) : transaction_id[i] \in 0..255
    /\ discover # NoPacket =>
          /\ Len(discover.transaction_ID) = 4
          /\ \A i \in 1..4 : discover.transaction_ID[i] \in 0..255
    /\ exc = NoExc

C17_Witness ==
    /\ pc = "codec"
    /\ transaction_id = <<0, 255, 18, 0>>

(***************************************************************************)
(* C18.  The phases of a probe follow one another in the order idle,       *)
(* sending, listening, done, never backwards, listening only after         *)
(* sending; the two sockets are never open together, and the send socket   *)
(* is closed before the listening socket exists.                           *)
(***************************************************************************)
SendingPcs == {"rq_socket", "rq_reuse", "rq_bcast", "rq_mac", "rq_ip",
               "rq_build", "rq_bind", "rq_send", "rq_close"}

PhaseRank ==
    IF pc = "idle" THEN 0
    ELSE IF pc \in SendingPcs THEN 1
    ELSE IF pc \in ListeningPcs THEN 2
    ELSE 3

C18_PhaseOrder ==
    /\ [](/\ ~(sendSock.state = "open" /\ recvSock.state = "open")
          /\ recvSock.state # "none" => sendSock.state = "closed"
          /\ pc \in ListeningPcs => sendSock.state = "closed"
          /\ pc \in SendingPcs => recvSock.state = "none")
    /\ [][/\ PhaseRank' >= PhaseRank
          /\ PhaseRank' <= PhaseRank + 1 \/ PhaseRank' = 3]_vars

C18_Witness ==
    /\ pc = "rc_recv"
    /\ sendSock.state = "closed"
    /\ recvSock.state = "open"
    /\ recvSock.bound # <<>>

(***************************************************************************)
(* C19.  When a probe has returned or raised, every socket it created is   *)
(* closed.                                                                 *)
(***************************************************************************)
C19_SocketsClosed ==
    pc \in {"pi_handle", "done"} =>
        /\ sendSock.state \in {"none", "closed"}
        /\ recvSock.state \in {"none", "closed"}

(***************************************************************************)
(* Two probes at the same time.                                            *)
(***************************************************************************)
\* The locals of the call that is running.
Locals ==
    [pc |-> pc, interface |-> interface, sendSock |-> sendSock,
     recvSock |-> recvSock, mac |-> mac, bind_address |-> bind_address,
     discover |-> discover, transaction_id |-> transaction_id,
     servers |-> servers, data |-> data, offer |-> offer, exc |-> exc,
     result |-> result, final |-> final, reads |-> reads]

\* A thread switch in which transaction_id is a module-level variable.
Switch_SharedXid ==
    /\ Concurrent
    /\ other' = Locals
    /\ pc' = other.pc
    /\ interface' = other.interface
    /\ sendSock' = other.sendSock
    /\ recvSock' = other.recvSock
    /\ mac' = other.mac
    /\ bind_address' = other.bind_address
    /\ discover' = other.discover
    /\ servers' = other.servers
    /\ data' = other.data
    /\ offer' = other.offer
    /\ exc' = other.exc
    /\ result' = other.result
    /\ final' = other.final
    /\ reads' = other.reads
    /\ UNCHANGED <<transaction_id, wire, maaslog, past, os, missed>>

\* A thread switch: the other call goes on with its own locals; the network
\* and the log are the same for both.
Switch ==
    /\ Concurrent
    /\ other' = Locals
    /\ pc' = other.pc
    /\ interface' = other.interface
    /\ sendSock' = other.sendSock
    /\ recvSock' = other.recvSock
    /\ mac' = other.mac
    /\ bind_address' = other.bind_address
    /\ discover' = other.discover
    /\ transaction_id' = other.transaction_id
    /\ servers' = other.servers
    /\ data' = other.data
    /\ offer' = other.offer
    /\ exc' = other.exc
    /\ result' = other.result
    /\ final' = other.final
    /\ reads' = other.reads
    /\ UNCHANGED <<wire, maaslog, past, os, missed>>

ConcInit ==
    /\ pc = "idle"
    /\ interface = <<>>
    /\ sendSock = NoSocket
    /\ recvSock = NoSocket
    /\ mac = <<>>
    /\ bind_address = <<>>
    /\ discover = NoPacket
    /\ transaction_id = <<>>
    /\ servers = {}
    /\ data = <<>>
    /\ offer = NoOffer
    /\ exc = NoExc
    /\ result = NoResult
    /\ final = NoResult
    /\ wire = <<>>
    /\ reads = <<>>
    /\ maaslog = <<>>
    /\ other = FreshLocals
    /\ past = NoPast
    /\ os = BootInterfaces
    /\ missed = <<>>

ConcNext ==
    \/ Call
    \/ RqSocket \/ RqReuse \/ RqBcast \/ RqMac \/ RqIp \/ RqBuild \/ RqBind
    \/ RqSend \/ RqClose
    \/ RcSocket \/ RcReuse \/ RcBind \/ RcRecv \/ RcDecode \/ RcCompare
    \/ RcExcept \/ RcClose
    \/ PiHandle
    \/ Switch

ConcSpec == ConcInit /\ [][ConcNext]_vars

(***************************************************************************)
(* C20.  Two probes of different interfaces, their steps interleaved in    *)
(* any way: a step of one probe leaves the locals of the other as they     *)
(* were (transaction ID, sockets and set of servers among them), each      *)
(* probe's transaction ID is the one of its own DISCOVER, its send socket  *)
(* is bound to its own interface's address, and its set of servers and its *)
(* result hold only addresses of datagrams it read that carried its own    *)
(* transaction ID.                                                         *)
(***************************************************************************)
\* The addresses of the datagrams a probe read that carried its own
\* transaction ID.
OwnServers(l) ==
    {Dotted(l.reads[i].server) :
        i \in {j \in 1..Len(l.reads) :
                 /\ l.reads[j].kind = "data"
                 /\ l.reads[j].len >= 249
                 /\ l.discover # NoPacket
                 /\ l.reads[j].xid = l.discover.transaction_ID}}

OwnOnly(l) ==
    /\ l.servers \subseteq OwnServers(l)
    /\ l.result.value \subseteq OwnServers(l)
    /\ l.final.value \subseteq OwnServers(l)
    /\ l.transaction_id # <<>> =>
          /\ l.discover # NoPacket
          /\ l.transaction_id = l.discover.transaction_ID
    /\ l.sendSock.bound # <<>> =>
          l.sendSock.bound[1] = get_interface_IP(l.interface)

C20_NoSharedState ==
    /\ [](OwnOnly(Locals) /\ OwnOnly(other))
    /\ [][\/ other' = other
          \/ other' = Locals /\ Locals' = other]_vars

C20_Witness ==
    /\ pc = "done"
    /\ other.pc = "done"
    /\ final.status = "returned"
    /\ other.final.status = "returned"
    /\ discover.transaction_ID # other.discover.transaction_ID
    /\ \E i \in 1..Len(reads) : reads[i].xid = other.discover.transaction_ID
    /\ \E i \in 1..Len(reads) : reads[i].xid = discover.transaction_ID
    /\ final.value = {Dotted(<<10, 0, 0, 1>>)}
    /\ \E i \in 1..Len(other.reads) :
          other.reads[i].xid = discover.transaction_ID
    /\ other.final.value = {}

(***************************************************************************)
(* C21.  As probe_interface's docstring has it: the set probe_interface    *)
(* returns never holds the probed interface's own IPv4 address.            *)
(***************************************************************************)
C21_LocalFiltered ==
    (pc = "done" /\ final.status = "returned") =>
        bind_address \notin final.value

(***************************************************************************)
(* C22.  An error of the operating system other than EADDRNOTAVAIL and     *)
(* ENODEV, wherever in the probe it is raised, leaves probe_dhcp and       *)
(* probe_interface as that error; nothing is returned, whatever servers    *)
(* had been gathered.                                                      *)
(***************************************************************************)
OtherOSError(e) ==
    IsIOError(e) /\ e.errno \notin {"EADDRNOTAVAIL", "ENODEV"}

C22_NoPartialResult ==
    /\ (pc \in {"pi_handle", "done"} /\ OtherOSError(exc)) =>
          /\ result = Propagated(exc)
          /\ result.value = {}
    /\ (pc = "done" /\ OtherOSError(exc)) =>
          /\ final = Propagated(exc)
          /\ final.value = {}
    /\ (pc = "done" /\ final.status = "returned") => ~OtherOSError(exc)

C22_Witness ==
    /\ pc = "done"
    /\ exc = Raised("OSError", "EACCES", "rc_recv")
    /\ servers # {}
    /\ final = Propagated(exc)

(***************************************************************************)
(* C24.  A datagram read that is shorter than 249 bytes fails to decode,   *)
(* whether its transaction ID is the one sent or not: the comparison is    *)
(* never reached, the error is an OSError without errno and no timeout,    *)
(* and it leaves probe_dhcp and probe_interface, whatever servers had been *)
(* gathered.                                                               *)
(***************************************************************************)
ShortRead ==
    Len(reads) > 0 /\ LastRead.kind = "data" /\ LastRead.len < 249

C24_ShortDatagramFaults ==
    /\ (ShortRead /\ pc # "rc_decode") =>
          /\ pc \in {"rc_except", "rc_close", "pi_handle", "done"}
          /\ exc = Raised("OSError", "None", "rc_decode")
          /\ exc.kind # "timeout"
    /\ (ShortRead /\ pc \in {"pi_handle", "done"}) =>
          result = Propagated(exc)
    /\ (ShortRead /\ pc = "done") =>
          /\ final = Propagated(exc)
          /\ final.value = {}
    /\ pc = "rc_compare" => LastRead.len >= 249

\* A short datagram with the transaction ID that was sent, after an offer
\* that was kept.
C24_Witness ==
    /\ pc = "done"
    /\ ShortRead
    /\ LastRead.len = 248
    /\ CarriesSentXid(LastRead)
    /\ servers # {}
    /\ final = Propagated(Raised("OSError", "None", "rc_decode"))

(***************************************************************************)
(* C26.  Building the DISCOVER is a function of the transaction ID and the *)
(* hardware address: built again from them at any later time it gives the  *)
(* same bytes; the step that builds touches no socket, the wire or the     *)
(* log; and the packet, once built, stays as it is and is what is sent.    *)
(***************************************************************************)
C26_BuildIsPure ==
    /\ [](/\ discover # NoPacket =>
               /\ discover.packed_mac = string_mac_to_packed(mac)
               /\ discover.packet
                    = Build(discover.transaction_ID, discover.packed_mac)
               /\ discover
                    = DHCPDiscoverPacket(mac, discover.transaction_ID)
          /\ \A i \in 1..Len(wire) : wire[i].payload = discover.packet)
    /\ [][/\ pc = "rq_build" =>
               UNCHANGED <<sendSock, recvSock, wire, reads, maaslog>>
          /\ discover # NoPacket => discover' = discover]_vars

C26_Witness ==
    /\ pc = "rc_recv"
    /\ interface = Eth2
    /\ Len(wire) = 1
    /\ wire[1].payload = Build(<<171, 18, 171, 18>>, <<2, 0, 0, 0, 0, 2>>)
    /\ discover.packet = wire[1].payload

(***************************************************************************)
(* C27.  The send socket has broadcast enabled before the addresses are    *)
(* resolved, the hardware address is resolved before the IPv4 address, the *)
(* socket is bound to (IPv4 address of the interface, 68) after both, and  *)
(* nothing is sent before that; what is sent goes from that address to     *)
(* (<broadcast>, 67).  The listening socket has SO_REUSEADDR set and is     *)
(* bound to ('', 68) before anything is read from it.                      *)
(***************************************************************************)
C27_SetUpBeforeUse ==
    /\ pc \in {"rq_mac", "rq_ip", "rq_build", "rq_bind", "rq_send"} =>
          /\ sendSock.state = "open"
          /\ sendSock.opts = {"SO_REUSEADDR", "SO_BROADCAST"}
    /\ pc \in {"idle", "rq_socket", "rq_reuse", "rq_bcast", "rq_mac"} =>
          mac = <<>> /\ bind_address = <<>>
    /\ bind_address # <<>> => mac # <<>>
    /\ sendSock.bound # <<>> =>
          /\ mac = get_interface_MAC(interface)
          /\ bind_address = get_interface_IP(interface)
          /\ sendSock.bound = <<bind_address, BOOTP_CLIENT_PORT>>
          /\ "SO_BROADCAST" \in sendSock.opts
    /\ pc \in SendingPcs \ {"rq_close"} => wire = <<>>
    /\ \A i \in 1..Len(wire) :
          /\ wire[i].src = <<bind_address, BOOTP_CLIENT_PORT>>
          /\ wire[i].dst = <<"<broadcast>", BOOTP_SERVER_PORT>>
    /\ pc \in {"rc_recv", "rc_decode", "rc_compare", "rc_except"} =>
          /\ recvSock.state = "open"
          /\ "SO_REUSEADDR" \in recvSock.opts
          /\ recvSock.bound = <<<<>>, BOOTP_CLIENT_PORT>>
    /\ pc \in {"rc_socket", "rc_reuse", "rc_bind"} => reads = <<>>

C27_Witness ==
    /\ pc = "rc_decode"
    /\ Len(reads) = 1
    /\ Len(wire) = 1
    /\ wire[1].src = <<get_interface_IP(Eth0), BOOTP_CLIENT_PORT>>
    /\ wire[1].dst = <<"<broadcast>", BOOTP_SERVER_PORT>>
    /\ recvSock.bound = <<<<>>, BOOTP_CLIENT_PORT>>
    /\ "SO_REUSEADDR" \in recvSock.opts

(***************************************************************************)
(* C28.  probe_interface looks at the errno alone: an I/O error with errno *)
(* EADDRNOTAVAIL or ENODEV makes it return the empty set wherever it was   *)
(* raised, binding or sending on the send socket, binding the listening    *)
(* socket or reading from it included, so also after the DISCOVER went out *)
(* and after offers were kept.                                             *)
(***************************************************************************)
AbsorbedError(e) ==
    IsIOError(e) /\ e.errno \in {"EADDRNOTAVAIL", "ENODEV"}

C28_ErrnoAlone ==
    /\ (pc = "done" /\ result.status = "raised" /\ AbsorbedError(result.exc))
          => (final = Returned({}) /\ Len(maaslog) = 1)
    /\ \A site \in {"rq_bind", "rq_send", "rc_bind", "rc_recv"} :
          (pc = "done" /\ AbsorbedError(exc) /\ exc.at = site) =>
              /\ result = Propagated(exc)
              /\ final.status = "returned"
              /\ final.value = {}

\* The empty set although the DISCOVER was sent and a server's offer was kept.
C28_Witness ==
    /\ pc = "done"
    /\ exc = Raised("OSError", "ENODEV", "rc_recv")
    /\ wire # <<>>
    /\ servers # {}
    /\ final = Returned({})

(***************************************************************************)
(* C29.  Every read starts a full idle wait of 3 seconds anew, whatever    *)
(* the datagram before it carried: as long as the datagrams read all carry *)
(* another transaction ID and each arrives within 3 seconds of the one     *)
(* before, the probe is still in its loop, however long it has listened,   *)
(* and its set of servers is empty.                                        *)
(***************************************************************************)
OnlyForeignReads ==
    /\ Len(reads) > 0
    /\ \A i \in 1..Len(reads) :
          /\ reads[i].kind = "data"
          /\ reads[i].len >= 249
          /\ reads[i].xid # EchoXid
          /\ reads[i].wait < IdleTimeout

C29_ForeignTrafficKeepsListening ==
    /\ OnlyForeignReads =>
          /\ pc \in {"rc_recv", "rc_decode", "rc_compare"}
          /\ servers = {}
          /\ result = NoResult
    /\ Len(reads) > 0 => recvSock.timeout = IdleTimeout
    /\ \A i \in 1..Len(reads) :
          reads[i].kind = "timeout" => reads[i].wait = IdleTimeout

\* Still reading after 4 seconds of datagrams of other exchanges.
C29_Witness ==
    /\ pc = "rc_recv"
    /\ Len(reads) = 2
    /\ OnlyForeignReads
    /\ SumWaits(reads) > IdleTimeout
    /\ servers = {}

(***************************************************************************)
(* probe_interface called again and again.                                 *)
(***************************************************************************)
\* The states of the operating system a call may find.
OSStates == {BootInterfaces, Readdressed}

\* probe_interface has returned or raised and is called again later.  The
\* names of the new call's frame are unbound until assigned: they are left
\* with whatever the frame before held, no exception is in flight, nothing
\* was read yet.  In between the interfaces may have changed.
Again ==
    /\ pc = "done"
    /\ past.left > 0
    /\ past' = [runs |-> Append(past.runs, Locals), left |-> past.left - 1]
    /\ \E o \in OSStates : os' = o
    /\ pc' = "idle"
    /\ exc' = NoExc
    /\ reads' = <<>>
    /\ UNCHANGED <<interface, sendSock, recvSock, mac, bind_address, discover,
                   transaction_id, servers, data, offer, result, final, wire,
                   maaslog, other, missed>>

RunsInit ==
    /\ pc = "idle"
    /\ interface = <<>>
    /\ sendSock = NoSocket
    /\ recvSock = NoSocket
    /\ mac = <<>>
    /\ bind_address = <<>>
    /\ discover = NoPacket
    /\ transaction_id = <<>>
    /\ servers = {}
    /\ data = <<>>
    /\ offer = NoOffer
    /\ exc = NoExc
    /\ result = NoResult
    /\ final = NoResult
    /\ wire = <<>>
    /\ reads = <<>>
    /\ maaslog = <<>>
    /\ other = NoOther
    /\ past = [runs |-> <<>>, left |-> MaxRuns - 1]
    /\ os = BootInterfaces
    /\ missed = <<>>

RunsNext ==
    \/ Call
    \/ RqSocket \/ RqReuse \/ RqBcast \/ RqMac \/ RqIp \/ RqBuild \/ RqBind
    \/ RqSend \/ RqClose
    \/ RcSocket \/ RcReuse \/ RcBind \/ RcRecv \/ RcDecode \/ RcCompare
    \/ RcExcept \/ RcClose
    \/ PiHandle
    \/ Again

RunsSpec == RunsInit /\ [][RunsNext]_vars

(***************************************************************************)
(* One probe on a network whose reply may arrive before the probe listens. *)
(***************************************************************************)
\* Between request_dhcp's return and receive_offers' bind.
WindowPcs == {"rc_socket", "rc_reuse", "rc_bind"}

\* The socket of the probe a datagram for port 68 is queued on, if any.
Taker ==
    IF sendSock.state = "open" /\ sendSock.bound # <<>> THEN "sendSock"
    ELSE IF recvSock.state = "open" /\ recvSock.bound # <<>> THEN "recvSock"
    ELSE "none"

\* A server's one answer to the DISCOVER arrives before receive_offers has
\* bound its socket: it is queued on the send socket while that is bound,
\* and dropped when no socket is bound to the port.
Deliver ==
    /\ pc \in {"rq_close"} \cup WindowPcs
    /\ exc = NoExc
    /\ wire # <<>>
    /\ missed = <<>>
    /\ missed' = <<[kind |-> "data", xid |-> SentXid,
                    server |-> <<10, 0, 0, 1>>, len |-> 249, wait |-> 0,
                    taker |-> Taker]>>
    /\ UNCHANGED <<pc, interface, sendSock, recvSock, mac, bind_address,
                   discover, transaction_id, servers, data, offer, exc,
                   result, final, wire, reads, maaslog, other, past, os>>

WindowNext ==
    \/ Call
    \/ RqSocket \/ RqReuse \/ RqBcast \/ RqMac \/ RqIp \/ RqBuild \/ RqBind
    \/ RqSend \/ RqClose
    \/ RcSocket \/ RcReuse \/ RcBind \/ RcRecv \/ RcDecode \/ RcCompare
    \/ RcExcept \/ RcClose
    \/ PiHandle
    \/ Deliver

WindowSpec == Init /\ [][WindowNext]_vars

(***************************************************************************)
(* C23.  In every call of a sequence of calls the set of servers starts    *)
(* empty and the set, what probe_dhcp returns and what probe_interface     *)
(* returns hold only addresses of datagrams read in this call with this    *)
(* call's transaction ID, whatever earlier calls had found; and the        *)
(* hardware and IPv4 addresses used are those the operating system has     *)
(* during this call, also when they changed since the call before.         *)
(***************************************************************************)
C23_FreshRun ==
    /\ pc \in {"rc_reuse", "rc_bind"} => servers = {}
    /\ pc \in ListeningPcs \ {"rc_socket"} =>
          servers \subseteq OwnServers(Locals)
    /\ pc \in {"pi_handle", "done"} =>
          result.value \subseteq OwnServers(Locals)
    /\ pc = "done" => final.value \subseteq OwnServers(Locals)
    /\ pc \in {"rq_ip", "rq_build", "rq_bind", "rq_send"} =>
          mac = FormatMAC(os[interface].hw)
    /\ pc \in {"rq_build", "rq_bind", "rq_send"} =>
          bind_address = InetNtoa(os[interface].ip)
    /\ pc \in ListeningPcs =>
          /\ wire[Len(wire)].src
               = <<InetNtoa(os[interface].ip), BOOTP_CLIENT_PORT>>
          /\ Slice(wire[Len(wire)].payload, 28, 34) = os[interface].hw

\* eth0 probed twice: the first call found a server; the second, after the
\* address changed, read only a late reply to the first call's DISCOVER.
C23_Witness ==
    /\ Len(past.runs) = 1
    /\ pc = "done"
    /\ past.runs[1].interface = Eth0
    /\ past.runs[1].final.value = {Dotted(<<10, 0, 0, 1>>)}
    /\ interface = Eth0
    /\ os = Readdressed
    /\ bind_address = InetNtoa(<<10, 0, 0, 9>>)
    /\ bind_address # past.runs[1].bind_address
    /\ Len(reads) = 2
    /\ reads[1].xid = past.runs[1].discover.transaction_ID
    /\ reads[1].xid # transaction_id
    /\ final = Returned({})

(***************************************************************************)
(* C25.  While a call listens, the transaction ID it compares with is the  *)
(* four bytes at 4..7 of the DISCOVER this call sent, the last on the      *)
(* wire; every call that listens has sent a DISCOVER of its own; and the   *)
(* servers kept are those of the datagrams read whose four bytes all equal *)
(* that ID.                                                                *)
(***************************************************************************)
SameFourBytes(x, y) ==
    Len(x) = 4 /\ Len(y) = 4 /\ \A k \in 1..4 : x[k] = y[k]

C25_OwnTransactionID ==
    /\ pc \in ListeningPcs =>
          /\ transaction_id = SentXid
          /\ wire[Len(wire)].payload = discover.packet
          /\ Len(wire)
               = 1 + Cardinality({i \in 1..Len(past.runs) :
                                    past.runs[i].result.status = "returned"})
    /\ pc \in {"rc_recv", "rc_except", "rc_close"} =>
          servers = {Dotted(reads[i].server) :
                       i \in {j \in 1..Len(reads) :
                                /\ reads[j].kind = "data"
                                /\ SameFourBytes(reads[j].xid, SentXid)}}

\* The second call compares a reply to the first call's DISCOVER with its own
\* transaction ID, which is another.
C25_Witness ==
    /\ Len(past.runs) = 1
    /\ pc = "rc_compare"
    /\ Len(wire) = 2
    /\ past.runs[1].transaction_id # transaction_id
    /\ offer.transaction_ID = past.runs[1].transaction_id
    /\ transaction_id = Slice(wire[2].payload, 4, 8)

(***************************************************************************)
(* C30.  From request_dhcp's return until receive_offers has bound its     *)
(* socket the probe has no socket bound to port 68.  A reply with the      *)
(* transaction ID sent that arrives then is dropped: what the probe        *)
(* returns is made of the datagrams it read and of nothing else, so it     *)
(* returns the empty set when it read none, although a server answered.    *)
(***************************************************************************)
C30_LostInWindow ==
    /\ pc \in WindowPcs =>
          /\ Taker = "none"
          /\ sendSock.state = "closed"
          /\ sendSock.bound = <<>>
          /\ recvSock.bound = <<>>
    /\ \A i \in 1..Len(missed) :
          /\ missed[i].xid = discover.transaction_ID
          /\ missed[i].taker # "recvSock"
          /\ pc \in WindowPcs => missed[i].taker \in {"none", "sendSock"}
    /\ (missed # <<>> /\ pc \in {"rc_recv", "rc_decode", "rc_compare"}) =>
          servers = {Dotted(a) : a \in MatchingServers(ProcessedReads)}
    /\ (missed # <<>> /\ pc = "done" /\ result.status = "returned") =>
          final.value = {Dotted(a) : a \in MatchingServers(1..Len(reads))}

\* The server's answer came in the window; the probe then heard nothing.
C30_Witness ==
    /\ pc = "done"
    /\ Len(missed) = 1
    /\ missed[1].taker = "none"
    /\ missed[1].xid = transaction_id
    /\ missed[1].len >= 249
    /\ Len(reads) = 1
    /\ reads[1].kind = "timeout"
    /\ final = Returned({})

====
